---- MODULE Spec2Model ----
(***************************************************************************)
(* Model of the Ticha scraper: the listing traversal of                    *)
(* TichaScraper.scrape_manuscripts (core/scraper.py) driven by the         *)
(* manuscripts command (cli.py), and the batch run of                      *)
(* TichaTextScraper.scrape_documents_from_dataframe (core/text_scraper.py).*)
(*                                                                         *)
(* Strings are sequences of character codes.  An optional value (None or a *)
(* value) is a sequence of length 0 or 1.                                  *)
(***************************************************************************)
EXTENDS Integers, Sequences, FiniteSets, TLC

VARIABLES
    site,           \* the remote listing: what each page's table holds
    pc,             \* position of the manuscripts command
    driver,         \* TichaScraper.driver: "none" or "open"
    quits,          \* number of driver.quit() calls
    shown,          \* page the browser's table shows (0: nothing loaded)
    clicks,         \* number of next_button.click() calls
    page_num,       \* scrape_manuscripts: page_num
    all_data,       \* scrape_manuscripts: all_data
    last,           \* outcome of the last interaction with the browser
    output,         \* the CSV file written by the command (None or rows)
    exit_code,      \* exit status of the command (-1: still running)
    df,             \* batch: the input DataFrame rows
    max_documents,  \* batch: max_documents (None or an integer)
    valid_df,       \* batch: valid_df
    scraped_data,   \* batch: scraped_data
    idx,            \* batch: number of rows of valid_df iterated over
    bpc,            \* batch: position of scrape_documents_from_dataframe
    fetches,        \* batch: the calls of scrape_document made so far
    command,        \* args.command: "manuscripts" or "texts"
    requests,       \* number of outbound requests made (get, click, fetch)
    delays,         \* number of _intelligent_delay calls
    undelayed,      \* a request was made and no _intelligent_delay since
    raw,            \* key normalization: the label given
    key,            \* key normalization: the label normalized
    key2,           \* key normalization: the normalized label normalized again
    npc,            \* position of the function applied on its own
    text_driver,    \* TichaTextScraper.driver: "unset" (no such attribute), "none" or "open"
    pending,        \* clicks whose refresh of the table has not happened yet
    div_element,    \* _extract_text_content: the <p> texts of the div (None: no div)
    region_content, \* _extract_text_content: the value returned
    metadata_div,   \* _extract_metadata: the <p> texts of div#metadata (None: no div)
    metadata_map,   \* _extract_metadata: the dictionary returned
    td,             \* the table cell read
    cell_text,      \* _extract_text_from_cell(td)
    cell_link       \* _extract_link_from_cell(td)

listVars == <<site, pc, driver, quits, shown, clicks, page_num, all_data, last, output, exit_code>>
batchVars == <<df, max_documents, valid_df, scraped_data, idx, bpc, fetches>>
netVars == <<requests, delays, undelayed>>
normVars == <<raw, key, key2, npc>>
envVars == <<command, text_driver, pending>>
funVars == <<div_element, region_content, metadata_div, metadata_map, td, cell_text, cell_link>>
vars == <<site, pc, driver, quits, shown, clicks, page_num, all_data, last, output, exit_code,
          df, max_documents, valid_df, scraped_data, idx, bpc, fetches, command,
          requests, delays, undelayed, raw, key, key2, npc, text_driver, pending,
          div_element, region_content, metadata_div, metadata_map, td, cell_text, cell_link>>

----------------------------------------------------------------------------
(* Bounds of the model *)

\* number of leading pages of a site whose kind is chosen freely
MaxLayout == 2

\* the same, for the runs of the whole command line
CliLayout == 1

\* number of pages of the listing whose table refreshes asynchronously
LivePages == 3

\* length of the labels given to the key normalization
MaxKeyLen == 4

\* number of rows of the batch input DataFrame
MaxRows == 3

\* largest max_documents tried
MaxDocs == 3

----------------------------------------------------------------------------
(* Optional values and strings *)

None == <<>>

Some(x) == <<x>>

\* {}
EmptyDict == [k \in {} |-> <<>>]

\* Python truthiness of a string
Truthy(s) == Len(s) > 0

\* str.isspace for one character
IsSpace(c) == c \in {9, 10, 11, 12, 13, 32}

RECURSIVE LStrip(_)
LStrip(s) == IF s # <<>> /\ IsSpace(Head(s)) THEN LStrip(Tail(s)) ELSE s

RECURSIVE RStrip(_)
RStrip(s) == IF s # <<>> /\ IsSpace(s[Len(s)]) THEN RStrip(SubSeq(s, 1, Len(s) - 1)) ELSE s

\* str.strip()
Strip(s) == RStrip(LStrip(s))

\* the Python test: sub in s
Contains(s, sub) == \E i \in 1..(Len(s) - Len(sub) + 1) : SubSeq(s, i, i + Len(sub) - 1) = sub

\* "disabled"
Disabled == <<100, 105, 115, 97, 98, 108, 101, 100>>

IsPrefix(s, t) == Len(s) <= Len(t) /\ SubSeq(t, 1, Len(s)) = s

----------------------------------------------------------------------------
(* The remote listing *)

\* a table cell without a link
Cell(text) == [text |-> text, a |-> <<>>, stale |-> FALSE]

\* a table cell holding one link
LinkCell(label, href) == [text |-> label, a |-> <<[text |-> label, href |-> href]>>, stale |-> FALSE]

StaleCell == [text |-> <<>>, a |-> <<>>, stale |-> TRUE]

\* text of the name cell and of the id cell of row i of page p (unique per row)
NameText(p, i) == <<32, 110, 256 + p, 512 + i, 32>>

IdText(p, i) == <<32, 256 + p, 512 + i, 10>>

Url(p, i) == <<47, 256 + p, 512 + i>>

\* cells 4..10 of a well-formed row
RestCells == <<LinkCell(<<49, 55>>, Some(<<47, 121>>)), LinkCell(<<32, 116>>, Some(<<>>)),
               LinkCell(<<97>>, None), Cell(<<100, 32>>), LinkCell(<<>>, Some(<<47, 108>>)),
               Cell(<<>>), Cell(<<32, 103, 32>>)>>

RowKinds == {"good", "plain", "short", "noname", "noid", "stale", "stalecell", "long", "norole"}

\* the <tr> of kind k at position i of page p
Tr(k, p, i) ==
    LET name == IF k = "noname" THEN LinkCell(<<32, 32>>, Some(Url(p, i)))
                ELSE IF k = "plain" THEN Cell(NameText(p, i))
                ELSE LinkCell(NameText(p, i), Some(Url(p, i)))
        id == IF k = "noid" THEN Cell(<<32>>) ELSE Cell(IdText(p, i))
        full == <<name, Cell(<<112, 100, 102>>), id>> \o RestCells
        cells == IF k = "short" THEN SubSeq(full, 1, 9)
                 ELSE IF k = "long" THEN full \o <<Cell(<<120>>)>>
                 ELSE IF k = "stalecell" THEN SubSeq(full, 1, 9) \o <<StaleCell>>
                 ELSE full
    IN  [cells |-> cells, stale |-> (k = "stale"), role |-> (k # "norole")]

PageKinds == {"good", "mixed", "bad", "empty"}

\* the row kinds of a page of each kind
KindRows(pk) ==
    CASE pk = "good" -> <<"good", "plain">>
      [] pk = "mixed" -> <<"short", "good", "noid", "stalecell", "long">>
      [] pk = "bad" -> <<"noname", "stale", "norole">>
      [] pk = "empty" -> <<>>
      [] OTHER -> <<"good">>

\* kind of page p of site s: the layout, then single-row pages for ever
KindOf(s, p) == IF p <= Len(s) THEN s[p] ELSE "single"

\* the <tr> elements of "table tbody" once page p of site s is shown
PageTrs(s, p) == LET ks == KindRows(KindOf(s, p)) IN [i \in 1..Len(ks) |-> Tr(ks[i], p, i)]

RECURSIVE SeqsUpTo(_, _)
SeqsUpTo(S, n) ==
    IF n = 0 THEN {<<>>}
    ELSE LET shorter == SeqsUpTo(S, n - 1)
         IN  shorter \cup {Append(q, x) : q \in {t \in shorter : Len(t) = n - 1}, x \in S}

Sites == SeqsUpTo(PageKinds, MaxLayout)

\* what find_element(By.ID, "myTable_next") and get_attribute("class") can
\* give: the element is missing, the lookup fails otherwise, or the class
\* attribute is absent or one of these strings
ClassStrings ==
    { <<110, 101, 120, 116>>,
      <<110, 101, 120, 116, 32>> \o Disabled,
      <<120>> \o Disabled \o <<120>>,
      <<100, 105, 115, 97, 98, 108, 101>>,
      Disabled }

Buttons ==
    {[found |-> "no", class |-> None], [found |-> "error", class |-> None],
     [found |-> "yes", class |-> None]}
    \cup {[found |-> "yes", class |-> Some(c)] : c \in ClassStrings}

----------------------------------------------------------------------------
(* TichaScraper: cell and row extraction *)

\* the text of a cell that can be read (a stale cell raises an exception
\* that is not NoSuchElementException: see RowRaises)
_extract_text_from_cell(cell) ==
    IF cell.a # <<>> THEN Strip(cell.a[1].text) ELSE Strip(cell.text)

\* variant: the href attribute is returned as it is
_extract_link_from_cell_href(cell) ==
    IF cell.a # <<>> THEN cell.a[1].href ELSE None

_extract_link_from_cell(cell) ==
    IF cell.a # <<>>
    THEN LET href == cell.a[1].href
         IN  IF href # None /\ Truthy(href[1]) THEN href ELSE None
    ELSE None

\* the row_data dictionary built from the cells of one row
RowData(cells) ==
    [document_name |-> _extract_text_from_cell(cells[1]),
     document_link |-> _extract_link_from_cell(cells[1]),
     file_type |-> _extract_text_from_cell(cells[2]),
     ticha_id |-> Strip(cells[3].text),
     year |-> _extract_text_from_cell(cells[4]),
     town |-> _extract_text_from_cell(cells[5]),
     archive |-> _extract_text_from_cell(cells[6]),
     doc_type |-> _extract_text_from_cell(cells[7]),
     language |-> _extract_text_from_cell(cells[8]),
     trptn_status |-> _extract_text_from_cell(cells[9]),
     legibility |-> _extract_text_from_cell(cells[10])]

\* expected number of columns
MinCells == 10

\* reading the row raises: the row itself is stale, or one of the ten cells read is
RowRaises(row) ==
    \/ row.stale
    \/ Len(row.cells) >= MinCells /\ \E k \in 1..MinCells : row.cells[k].stale

\* variant: the acceptance test looks at document_name only
EssentialNameOnly(row_data) == Truthy(row_data.document_name)

\* "Only add row if we have essential data"
Essential(row_data) == Truthy(row_data.document_name) /\ Truthy(row_data.ticha_id)

\* variant: an accepted row is put in front of page_data
RECURSIVE ExtractLoopPrepend(_, _, _)
ExtractLoopPrepend(rows, k, page_data) ==
    IF k > Len(rows) THEN page_data
    ELSE LET row == rows[k]
         IN  IF RowRaises(row) THEN ExtractLoopPrepend(rows, k + 1, page_data)
             ELSE IF Len(row.cells) < MinCells THEN ExtractLoopPrepend(rows, k + 1, page_data)
             ELSE IF Essential(RowData(row.cells))
                  THEN ExtractLoopPrepend(rows, k + 1, <<RowData(row.cells)>> \o page_data)
                  ELSE ExtractLoopPrepend(rows, k + 1, page_data)

\* variant: no try/except around one row, so a raising row ends the page
\* in the outer handler, which returns []
RECURSIVE ExtractLoopAbort(_, _, _)
ExtractLoopAbort(rows, k, page_data) ==
    IF k > Len(rows) THEN page_data
    ELSE LET row == rows[k]
         IN  IF RowRaises(row) THEN <<>>
             ELSE IF Len(row.cells) < MinCells THEN ExtractLoopAbort(rows, k + 1, page_data)
             ELSE IF Essential(RowData(row.cells))
                  THEN ExtractLoopAbort(rows, k + 1, Append(page_data, RowData(row.cells)))
                  ELSE ExtractLoopAbort(rows, k + 1, page_data)

\* the body of "for row in rows": page_data after the rows from position k on
RECURSIVE ExtractLoop(_, _, _)
ExtractLoop(rows, k, page_data) ==
    IF k > Len(rows) THEN page_data
    ELSE LET row == rows[k]
         IN  IF RowRaises(row) THEN ExtractLoop(rows, k + 1, page_data)
             ELSE IF Len(row.cells) < MinCells THEN ExtractLoop(rows, k + 1, page_data)
             ELSE IF Essential(RowData(row.cells))
                  THEN ExtractLoop(rows, k + 1, Append(page_data, RowData(row.cells)))
                  ELSE ExtractLoop(rows, k + 1, page_data)

\* _extract_table_data on a table holding the <tr> elements trs: the wait for
\* "table tbody tr" times out when there is none; the rows read are those
\* with role="row"
_extract_table_data(trs) ==
    IF Len(trs) = 0 THEN <<>>
    ELSE ExtractLoop(SelectSeq(trs, LAMBDA tr : tr.role), 1, <<>>)

----------------------------------------------------------------------------
(* TichaScraper: pagination *)

\* variant: the control counts as disabled only when "disabled" is a whole
\* word at the end of the class attribute
_has_next_page_word(b) ==
    IF b.found # "yes" THEN FALSE
    ELSE IF b.class = None THEN FALSE
    ELSE LET c == b.class[1]
         IN  ~(c = Disabled \/ (Len(c) > Len(Disabled)
                                /\ SubSeq(c, Len(c) - Len(Disabled), Len(c)) = <<32>> \o Disabled))

\* variant: a control that cannot be inspected counts as enabled
_has_next_page_optimistic(b) ==
    IF b.found # "yes" THEN TRUE
    ELSE IF b.class = None THEN TRUE
    ELSE ~Contains(b.class[1], Disabled)

\* _has_next_page when the lookup of the control gives b
_has_next_page(b) ==
    IF b.found # "yes" THEN FALSE
    ELSE IF b.class = None THEN FALSE
    ELSE ~Contains(b.class[1], Disabled)

\* variant: a control that is found is clicked whatever its class
ClicksWhenFound(b) == b.found = "yes"

\* _go_to_next_page reaches next_button.click() when the lookup gives b
Clicks(b) == b.found = "yes" /\ b.class # None /\ ~Contains(b.class[1], Disabled)

ClickOutcomes == {"ok", "error"}

WaitOutcomes == {"ok", "timeout"}

\* _go_to_next_page: the lookup gives b, click() and the wait end as given
_go_to_next_page(b, click, wait) == Clicks(b) /\ click = "ok" /\ wait = "ok"

\* "Safety check to prevent infinite loops"
MaxPageLimit == 100

NoButton == [found |-> "no", class |-> None]

Obs(op, b, clicked, ok) == [op |-> op, button |-> b, clicked |-> clicked, ok |-> ok]

----------------------------------------------------------------------------
(* The manuscripts command *)

BatchIdle ==
    /\ df = <<>>
    /\ max_documents = None
    /\ valid_df = <<>>
    /\ scraped_data = <<>>
    /\ idx = 0
    /\ bpc = "idle"
    /\ fetches = <<>>

NetIdle ==
    /\ requests = 0
    /\ delays = 0
    /\ undelayed = FALSE

NormIdle ==
    /\ raw = <<>>
    /\ key = <<>>
    /\ key2 = <<>>
    /\ npc = "idle"

\* no function is applied on its own
FunIdle ==
    /\ div_element = None
    /\ region_content = None
    /\ metadata_div = None
    /\ metadata_map = EmptyDict
    /\ td = Cell(<<>>)
    /\ cell_text = <<>>
    /\ cell_link = None

\* nothing but the command chosen: TichaTextScraper.__init__ sets no driver
\* attribute, and no click is waiting for its refresh
EnvIdle ==
    /\ text_driver = "unset"
    /\ pending = 0

Init ==
    /\ site \in Sites
    /\ pc = "idle"
    /\ driver = "none"
    /\ quits = 0
    /\ shown = 0
    /\ clicks = 0
    /\ page_num = 0
    /\ all_data = <<>>
    /\ last = Obs("none", NoButton, FALSE, FALSE)
    /\ output = None
    /\ exit_code = -1
    /\ command = "manuscripts"
    /\ BatchIdle
    /\ NetIdle
    /\ FunIdle
    /\ EnvIdle
    /\ NormIdle

\* TichaScraper.close, run by the finally clause
Close ==
    /\ driver' = "none"
    /\ quits' = IF driver = "open" THEN quits + 1 ELSE quits

\* the command constructs the scraper; scrape_manuscripts sets up the driver
Start ==
    /\ command = "manuscripts"
    /\ pc = "idle"
    /\ driver' = "open"
    /\ pc' = "load"
    /\ UNCHANGED <<site, quits, shown, clicks, page_num, all_data, last, output, exit_code>>
    /\ UNCHANGED <<batchVars, envVars, netVars, normVars, funVars>>

LoadOutcomes == {"ok", "get_error", "table_timeout"}

\* driver.get(base_url) and the wait for "table"
Load(outcome) ==
    /\ pc = "load"
    /\ last' = Obs("load", NoButton, FALSE, outcome = "ok")
    /\ IF outcome = "ok"
       THEN /\ shown' = 1
            /\ all_data' = <<>>
            /\ page_num' = 1
            /\ pc' = "extract"
            /\ UNCHANGED <<driver, quits>>
       ELSE /\ pc' = "raised"
            /\ Close
            /\ UNCHANGED <<shown, all_data, page_num>>
    /\ requests' = requests + 1
    /\ undelayed' = TRUE
    /\ UNCHANGED <<site, clicks, output, exit_code, delays>>
    /\ UNCHANGED <<batchVars, envVars, normVars, funVars>>

\* page_data = self._extract_table_data(); all_data.extend(page_data)
Extract ==
    /\ pc = "extract"
    /\ all_data' = all_data \o _extract_table_data(PageTrs(site, shown))
    /\ last' = Obs("extract", NoButton, FALSE, Len(PageTrs(site, shown)) > 0)
    /\ pc' = "has_next"
    /\ UNCHANGED <<site, driver, quits, shown, clicks, page_num, output, exit_code>>
    /\ UNCHANGED <<batchVars, envVars, netVars, normVars, funVars>>

\* if not self._has_next_page(): break
HasNext(b) ==
    /\ pc = "has_next"
    /\ last' = Obs("has_next", b, FALSE, _has_next_page(b))
    /\ IF _has_next_page(b)
       THEN /\ pc' = "go_next"
            /\ UNCHANGED <<driver, quits>>
       ELSE /\ pc' = "returned"
            /\ Close
    /\ UNCHANGED <<site, shown, clicks, page_num, all_data, output, exit_code>>
    /\ UNCHANGED <<batchVars, envVars, netVars, normVars, funVars>>

\* variant: a failed navigation is not caught and ends the run with the error
GoNextRaises(b, click, wait) ==
    /\ pc = "go_next"
    /\ last' = Obs("go_next", b, Clicks(b), _go_to_next_page(b, click, wait))
    /\ clicks' = IF Clicks(b) THEN clicks + 1 ELSE clicks
    /\ shown' = IF Clicks(b) /\ click = "ok" THEN shown + 1 ELSE shown
    /\ IF _go_to_next_page(b, click, wait)
       THEN /\ page_num' = page_num + 1
            /\ IF page_num + 1 > MaxPageLimit
               THEN pc' = "returned" /\ Close
               ELSE pc' = "extract" /\ UNCHANGED <<driver, quits>>
       ELSE /\ page_num' = page_num
            /\ pc' = IF Clicks(b) THEN "raised" ELSE "returned"
            /\ Close
    /\ requests' = IF Clicks(b) THEN requests + 1 ELSE requests
    /\ delays' = IF Clicks(b) /\ click = "ok" THEN delays + 1 ELSE delays
    /\ undelayed' = IF Clicks(b) THEN click # "ok" ELSE undelayed
    /\ UNCHANGED <<site, all_data, output, exit_code>>
    /\ UNCHANGED <<batchVars, envVars, normVars, funVars>>

\* if not self._go_to_next_page(): break; page_num += 1; the page limit.
\* A click that does not raise makes the table show the next page at once.
GoNext(b, click, wait) ==
    /\ pc = "go_next"
    /\ last' = Obs("go_next", b, Clicks(b), _go_to_next_page(b, click, wait))
    /\ clicks' = IF Clicks(b) THEN clicks + 1 ELSE clicks
    /\ shown' = IF Clicks(b) /\ click = "ok" THEN shown + 1 ELSE shown
    /\ IF _go_to_next_page(b, click, wait)
       THEN /\ page_num' = page_num + 1
            /\ IF page_num + 1 > MaxPageLimit
               THEN pc' = "returned" /\ Close
               ELSE pc' = "extract" /\ UNCHANGED <<driver, quits>>
       ELSE /\ page_num' = page_num
            /\ pc' = "returned"
            /\ Close
    /\ requests' = IF Clicks(b) THEN requests + 1 ELSE requests
    /\ delays' = IF Clicks(b) /\ click = "ok" THEN delays + 1 ELSE delays
    /\ undelayed' = IF Clicks(b) THEN click # "ok" ELSE undelayed
    /\ UNCHANGED <<site, all_data, output, exit_code>>
    /\ UNCHANGED <<batchVars, envVars, normVars, funVars>>

CsvOutcomes == {"ok", "error"}

\* variant: an empty DataFrame is written like any other
FinishWritesEmpty(csv) ==
    /\ pc \in {"returned", "raised"}
    /\ pc' = "exited"
    /\ IF pc = "raised" \/ csv = "error"
       THEN exit_code' = 1 /\ output' = output
       ELSE exit_code' = 0 /\ output' = Some(all_data)
    /\ UNCHANGED <<site, driver, quits, shown, clicks, page_num, all_data, last>>
    /\ UNCHANGED <<batchVars, envVars, netVars, normVars, funVars>>

\* cli.scrape_manuscripts after scraper.scrape_manuscripts() has ended
Finish(csv) ==
    /\ pc \in {"returned", "raised"}
    /\ pc' = "exited"
    /\ IF pc = "raised" \/ all_data = <<>> \/ csv = "error"
       THEN exit_code' = 1 /\ output' = output
       ELSE exit_code' = 0 /\ output' = Some(all_data)
    /\ UNCHANGED <<site, driver, quits, shown, clicks, page_num, all_data, last>>
    /\ UNCHANGED <<batchVars, envVars, netVars, normVars, funVars>>

Next ==
    \/ Start
    \/ \E outcome \in LoadOutcomes : Load(outcome)
    \/ Extract
    \/ \E b \in Buttons : HasNext(b)
    \/ \E b \in Buttons, click \in ClickOutcomes, wait \in WaitOutcomes : GoNext(b, click, wait)
    \/ \E csv \in CsvOutcomes : Finish(csv)

Spec == Init /\ [][Next]_vars

TypeOK ==
    /\ pc \in {"idle", "load", "extract", "has_next", "go_next", "returned", "raised", "exited"}
    /\ driver \in {"none", "open"}
    /\ page_num \in 0..(MaxPageLimit + 1)

----------------------------------------------------------------------------
(* TichaTextScraper: the batch run *)

\* "http"
Http == <<104, 116, 116, 112>>

\* self.base_url, shortened
BaseUrl == Http \o <<115, 58, 47, 47, 116>>

StartsWith(s, pre) == IsPrefix(pre, s)

\* urljoin(base_url, ref) for a reference that is not absolute
UrlJoin(base, ref) == IF StartsWith(ref, <<47>>) THEN base \o ref ELSE base \o <<47>> \o ref

\* values of the link column: NaN/None, '', an absolute and a relative reference
Links == {None, Some(<<>>), Some(Http \o <<58, 49>>), Some(<<47, 50>>)}

\* row i of the input DataFrame
BatchRow(i, link) ==
    [document_name |-> <<110, 48 + i>>, document_link |-> link, ticha_id |-> <<73, 68, 48 + i>>,
     archive |-> <<88, 48 + i>>, transcription |-> Some(<<111, 48 + i>>)]

\* the condition of the filter: notna() & (!= '')
HasLink(row) == row.document_link # None /\ row.document_link[1] # <<>>

Min(a, b) == IF a < b THEN a ELSE b

Max(a, b) == IF a > b THEN a ELSE b

\* DataFrame.head(n): the first n rows, or all but the last -n when n < 0
DfHead(rows, n) ==
    IF n >= 0 THEN SubSeq(rows, 1, Min(n, Len(rows)))
    ELSE SubSeq(rows, 1, Max(Len(rows) + n, 0))

\* valid_df: the filter, then "if max_documents: valid_df = valid_df.head(max_documents)"
ValidDf(rows, maxdocs) ==
    LET valid == SelectSeq(rows, HasLink)
    IN  IF maxdocs # None /\ maxdocs[1] # 0 THEN DfHead(valid, maxdocs[1]) ELSE valid

\* variant: on a key of both, the value of the first dictionary is kept
MergeKeepFirst(a, b) == [k \in DOMAIN a \cup DOMAIN b |-> IF k \in DOMAIN a THEN a[k] ELSE b[k]]

\* {**a, **b}
Merge(a, b) == [k \in DOMAIN a \cup DOMAIN b |-> IF k \in DOMAIN b THEN b[k] ELSE a[k]]

----------------------------------------------------------------------------
(* TichaTextScraper: key normalization *)

\* str.lower for one character (ASCII and Latin-1 letters)
Lower(c) == IF c \in 65..90 \/ (c \in 192..222 /\ c # 215) THEN c + 32 ELSE c

LowerStr(s) == [i \in 1..Len(s) |-> Lower(s[i])]

\* the class \w of a str pattern: ASCII letters, digits, underscore, and the
\* letters outside ASCII (here those of Latin-1)
IsWord(c) ==
    \/ c \in 48..57
    \/ c \in 65..90
    \/ c \in 97..122
    \/ c = 95
    \/ (c \in 192..255 /\ c \notin {215, 247})

\* the class [\s\-\.]
IsSep(c) == IsSpace(c) \/ c \in {45, 46}

\* re.sub(r'[\s\-\.]+', '_', s)
RECURSIVE SubSeps(_)
SubSeps(s) ==
    IF s = <<>> THEN <<>>
    ELSE IF IsSep(Head(s))
         THEN IF Len(s) > 1 /\ IsSep(s[2]) THEN SubSeps(Tail(s)) ELSE <<95>> \o SubSeps(Tail(s))
         ELSE <<Head(s)>> \o SubSeps(Tail(s))

\* variant: what parentheses wrap is removed with them
RECURSIVE DropNonWordAndWrapped(_)
DropNonWordAndWrapped(s) ==
    IF s = <<>> THEN <<>>
    ELSE IF Head(s) = 40 /\ \E j \in 2..Len(s) : s[j] = 41
         THEN LET j == CHOOSE j \in 2..Len(s) : s[j] = 41 /\ \A i \in 2..(j - 1) : s[i] # 41
              IN  DropNonWordAndWrapped(SubSeq(s, j + 1, Len(s)))
         ELSE IF IsWord(Head(s)) THEN <<Head(s)>> \o DropNonWordAndWrapped(Tail(s))
         ELSE DropNonWordAndWrapped(Tail(s))

\* re.sub(r'[^\w_]', '', s)
DropNonWord(s) == SelectSeq(s, IsWord)

\* re.sub(r'_+', '_', s)
RECURSIVE Squash(_)
Squash(s) ==
    IF s = <<>> THEN <<>>
    ELSE IF Head(s) = 95 /\ Len(s) > 1 /\ s[2] = 95 THEN Squash(Tail(s))
    ELSE <<Head(s)>> \o Squash(Tail(s))

RECURSIVE LStripU(_)
LStripU(s) == IF s # <<>> /\ Head(s) = 95 THEN LStripU(Tail(s)) ELSE s

RECURSIVE RStripU(_)
RStripU(s) == IF s # <<>> /\ s[Len(s)] = 95 THEN RStripU(SubSeq(s, 1, Len(s) - 1)) ELSE s

\* s.strip('_')
StripU(s) == RStripU(LStripU(s))

_normalize_metadata_key(k) == StripU(Squash(DropNonWord(SubSeps(LowerStr(Strip(k))))))

----------------------------------------------------------------------------
(* TichaTextScraper: one document *)

\* the dictionary key (a field name) a normalized label stands for
FieldName(k) ==
    CASE k = <<116, 105, 116, 108, 101>> -> "title"
      [] k = <<97, 114, 99, 104, 105, 118, 101>> -> "archive"
      [] k = <<117, 114, 108>> -> "url"
      [] k = <<109, 111, 100, 101, 114, 110, 95, 115, 112, 97, 110, 105, 115, 104>> -> "modern_spanish"
      [] k = <<>> -> ""
      [] OTHER -> "other"

\* PageA: metadata "Title: T1", " Archive : Y:z ", "no colon", " ", "Title:T2"
\* and transcription " A.", " \n", "B. "; PageB: metadata "URL: x",
\* "Modern Spanish (es): m".
\* a document page: the <p> texts of div#metadata and of the three content
\* divs, None for a div that is absent
PageA ==
    [metadata |-> Some(<<<<84, 105, 116, 108, 101, 58, 32, 84, 49>>, <<32, 65, 114, 99, 104, 105, 118, 101, 32, 58, 32, 89, 58, 122, 32>>, <<110, 111, 32, 99, 111, 108, 111, 110>>, <<32>>, <<84, 105, 116, 108, 101, 58, 84, 50>>>>),
     transcription |-> Some(<<<<32, 65, 46>>, <<32, 10>>, <<66, 46, 32>>>>),
     interLinear |-> None,
     modern_spanish |-> Some(<<<<32, 32>>>>)]

PageB ==
    [metadata |-> Some(<<<<85, 82, 76, 58, 32, 120>>, <<77, 111, 100, 101, 114, 110, 32, 83, 112, 97, 110, 105, 115, 104, 32, 40, 101, 115, 41, 58, 32, 109>>>>),
     transcription |-> None,
     interLinear |-> Some(<<<<73>>>>),
     modern_spanish |-> Some(<<<<83>>, <<115>>>>)]

NoPage == [metadata |-> None, transcription |-> None, interLinear |-> None, modern_spanish |-> None]

DocPages == {PageA, PageB, NoPage}

\* the outcomes of requests.get: status 200 with a page, another status, an exception
FetchOutcomes == {"ok", "status", "exception"}

FetchResults == {<<"ok", p>> : p \in DocPages} \cup {<<"status", NoPage>>, <<"exception", NoPage>>}

\* variant: a key that is already there keeps its value
PutKeepFirst(d, k, v) == [x \in DOMAIN d \cup {k} |-> IF x \in DOMAIN d THEN d[x] ELSE v]

\* d[k] = v
Put(d, k, v) == [x \in DOMAIN d \cup {k} |-> IF x = k THEN v ELSE d[x]]

\* variant: the position of the last ':' in text
ColonAtLast(text, i) ==
    LET at == {j \in i..Len(text) : text[j] = 58}
    IN  IF at = {} THEN 0 ELSE CHOOSE j \in at : \A m \in at : m <= j

\* position of the first ':' in text (0: none)
RECURSIVE ColonAt(_, _)
ColonAt(text, i) == IF i > Len(text) THEN 0 ELSE IF text[i] = 58 THEN i ELSE ColonAt(text, i + 1)

\* the body of "for p_tag in p_tags" of _extract_metadata
RECURSIVE MetaLoop(_, _, _)
MetaLoop(p_tags, k, metadata) ==
    IF k > Len(p_tags) THEN metadata
    ELSE LET text == Strip(p_tags[k])
             c == ColonAt(text, 1)
         IN  IF text = <<>> \/ c = 0 THEN MetaLoop(p_tags, k + 1, metadata)
             ELSE MetaLoop(p_tags, k + 1,
                           Put(metadata,
                               _normalize_metadata_key(SubSeq(text, 1, c - 1)),
                               Strip(SubSeq(text, c + 1, Len(text)))))

_extract_metadata(page) ==
    IF page.metadata = None THEN EmptyDict ELSE MetaLoop(page.metadata[1], 1, EmptyDict)

\* variant: the paragraphs are joined by a single newline
RECURSIVE JoinNewline(_)
JoinNewline(paragraphs) ==
    IF Len(paragraphs) = 1 THEN paragraphs[1]
    ELSE paragraphs[1] \o <<10>> \o JoinNewline(Tail(paragraphs))

\* '\n\n'.join(paragraphs)
RECURSIVE Join(_)
Join(paragraphs) ==
    IF Len(paragraphs) = 1 THEN paragraphs[1]
    ELSE paragraphs[1] \o <<10, 10>> \o Join(Tail(paragraphs))

\* _extract_text_content for the <p> texts of a div (None: no such div)
_extract_text_content(div) ==
    LET p_tags == IF div = None THEN <<>> ELSE div[1]
        stripped == [i \in 1..Len(p_tags) |-> Strip(p_tags[i])]
        paragraphs == SelectSeq(stripped, Truthy)
    IN  IF paragraphs # <<>> THEN Some(Join(paragraphs)) ELSE None

\* the metadata dictionary with its keys as field names
Named(metadata) ==
    [f \in {FieldName(k) : k \in DOMAIN metadata}
        |-> metadata[CHOOSE k \in DOMAIN metadata : FieldName(k) = f]]

\* the reference made absolute
Resolve(document_url) ==
    IF StartsWith(document_url, Http) THEN document_url ELSE UrlJoin(BaseUrl, document_url)

\* variant: the body of a response is returned whatever its status
_get_page_any_status(fetch, page) == IF fetch = "exception" THEN None ELSE Some(page)

\* _get_page: None for a status that is not 200 (an exception propagates)
_get_page(fetch, page) == IF fetch = "ok" THEN Some(page) ELSE None

\* str(e) of the exception caught
ErrorText(fetch) == IF fetch = "status" THEN <<78, 111, 110, 101>> ELSE <<99, 111, 110, 110>>

\* scrape_document: the record returned for a reference when requests.get
\* ends as given; BeautifulSoup(None) raises, as does a failed request
scrape_document(document_url, fetch, page) ==
    LET url == Resolve(document_url)
        content == _get_page(fetch, page)
    IN  IF fetch = "exception" \/ content = None
        THEN [url |-> url, error |-> ErrorText(fetch)]
        ELSE Merge([url |-> url,
                    transcription |-> _extract_text_content(content[1].transcription),
                    interlinear |-> _extract_text_content(content[1].interLinear),
                    modern_spanish |-> _extract_text_content(content[1].modern_spanish)],
                   Named(_extract_metadata(content[1])))

\* scrape_document reaches self._intelligent_delay()
Delayed(fetch) == fetch = "ok"

----------------------------------------------------------------------------
(* TichaTextScraper: the run over the rows *)

ListIdle ==
    /\ site = <<>>
    /\ pc = "idle"
    /\ driver = "none"
    /\ quits = 0
    /\ shown = 0
    /\ clicks = 0
    /\ page_num = 0
    /\ all_data = <<>>
    /\ last = Obs("none", NoButton, FALSE, FALSE)
    /\ output = None
    /\ exit_code = -1
    /\ NetIdle
    /\ FunIdle
    /\ EnvIdle
    /\ NormIdle

MaxDocsValues == {None} \cup {Some(n) : n \in (-1)..MaxDocs}

InitBatch ==
    /\ ListIdle
    /\ df \in {[i \in 1..Len(ls) |-> BatchRow(i, ls[i])] : ls \in SeqsUpTo(Links, MaxRows)}
    /\ max_documents \in MaxDocsValues
    /\ valid_df = <<>>
    /\ scraped_data = <<>>
    /\ idx = 0
    /\ bpc = "idle"
    /\ fetches = <<>>
    /\ command = "texts"

\* scrape_documents_from_dataframe up to the loop
BatchStart ==
    /\ bpc = "idle"
    /\ valid_df' = ValidDf(df, max_documents)
    /\ scraped_data' = <<>>
    /\ idx' = 0
    /\ bpc' = "loop"
    /\ UNCHANGED <<df, max_documents, fetches>>
    /\ UNCHANGED <<listVars, envVars, netVars, normVars, funVars>>

\* variant: a document that failed is fetched a second time
ScrapeOneRetries(fetch, page) ==
    /\ bpc = "loop"
    /\ idx < Len(valid_df)
    /\ LET row == valid_df[idx + 1]
           doc_data == scrape_document(row.document_link[1], fetch, page)
           again == fetch # "ok" /\ Len(fetches) = idx
       IN  /\ scraped_data' = IF again THEN scraped_data
                              ELSE Append(scraped_data, Merge(row, doc_data))
           /\ fetches' = Append(fetches, [ref |-> row.document_link[1], fetch |-> fetch,
                                          page |-> page, doc |-> doc_data])
           /\ idx' = IF again THEN idx ELSE idx + 1
    /\ requests' = requests + 1
    /\ delays' = IF Delayed(fetch) THEN delays + 1 ELSE delays
    /\ undelayed' = ~Delayed(fetch)
    /\ UNCHANGED <<df, max_documents, valid_df, bpc>>
    /\ UNCHANGED <<listVars, envVars, normVars, funVars>>

\* variant: a document that failed leaves no record
ScrapeOneDropsFailed(fetch, page) ==
    /\ bpc = "loop"
    /\ idx < Len(valid_df)
    /\ LET row == valid_df[idx + 1]
           doc_data == scrape_document(row.document_link[1], fetch, page)
       IN  /\ scraped_data' = IF fetch = "ok" THEN Append(scraped_data, Merge(row, doc_data))
                              ELSE scraped_data
           /\ fetches' = Append(fetches, [ref |-> row.document_link[1], fetch |-> fetch,
                                          page |-> page, doc |-> doc_data])
    /\ idx' = idx + 1
    /\ requests' = requests + 1
    /\ delays' = IF Delayed(fetch) THEN delays + 1 ELSE delays
    /\ undelayed' = ~Delayed(fetch)
    /\ UNCHANGED <<df, max_documents, valid_df, bpc>>
    /\ UNCHANGED <<listVars, envVars, normVars, funVars>>

\* one iteration of "for idx, (_, row) in enumerate(valid_df.iterrows(), 1)"
ScrapeOne(fetch, page) ==
    /\ bpc = "loop"
    /\ idx < Len(valid_df)
    /\ LET row == valid_df[idx + 1]
           doc_data == scrape_document(row.document_link[1], fetch, page)
       IN  /\ scraped_data' = Append(scraped_data, Merge(row, doc_data))
           /\ fetches' = Append(fetches, [ref |-> row.document_link[1], fetch |-> fetch,
                                          page |-> page, doc |-> doc_data])
    /\ idx' = idx + 1
    /\ requests' = requests + 1
    /\ delays' = IF Delayed(fetch) THEN delays + 1 ELSE delays
    /\ undelayed' = ~Delayed(fetch)
    /\ UNCHANGED <<df, max_documents, valid_df, bpc>>
    /\ UNCHANGED <<listVars, envVars, normVars, funVars>>

\* the loop is over: return pd.DataFrame(scraped_data)
BatchReturn ==
    /\ bpc = "loop"
    /\ idx = Len(valid_df)
    /\ bpc' = "done"
    /\ UNCHANGED <<df, max_documents, valid_df, scraped_data, idx, fetches>>
    /\ UNCHANGED <<listVars, envVars, netVars, normVars, funVars>>

NextBatch ==
    \/ BatchStart
    \/ \E r \in FetchResults : ScrapeOne(r[1], r[2])
    \/ BatchReturn

SpecBatch == InitBatch /\ [][NextBatch]_vars

----------------------------------------------------------------------------
(* The command line: either command, and an external interrupt *)

InitCli ==
    \/ Init /\ Len(site) <= CliLayout
    \/ InitBatch

\* variant: the interrupt leaves the driver as it is
InterruptKeepsDriver ==
    /\ command = "manuscripts"
    /\ pc \in {"load", "extract", "has_next", "go_next"}
    /\ last' = Obs("interrupt", NoButton, FALSE, FALSE)
    /\ pc' = "exited"
    /\ exit_code' = 1
    /\ UNCHANGED <<site, driver, quits, shown, clicks, page_num, all_data, output>>
    /\ UNCHANGED <<batchVars, envVars, netVars, normVars, funVars>>

\* KeyboardInterrupt while scrape_manuscripts is in its try block: no
\* "except Exception" catches it, the finally clause closes the driver and
\* the command's handler exits with status 1
Interrupt ==
    /\ command = "manuscripts"
    /\ pc \in {"load", "extract", "has_next", "go_next"}
    /\ last' = Obs("interrupt", NoButton, FALSE, FALSE)
    /\ Close
    /\ pc' = "exited"
    /\ exit_code' = 1
    /\ UNCHANGED <<site, shown, clicks, page_num, all_data, output>>
    /\ UNCHANGED <<batchVars, envVars, netVars, normVars, funVars>>

InputOutcomes == {"ok", "missing_file", "no_column"}

\* cli.scrape_texts up to the loop over the rows: the input file is read,
\* the rows with a link are kept and handed to scrape_documents_from_dataframe
TextsStart(input) ==
    /\ command = "texts"
    /\ pc = "idle"
    /\ bpc = "idle"
    /\ IF input = "ok" /\ ValidDf(df, None) # <<>>
       THEN BatchStart
       ELSE /\ pc' = "exited"
            /\ exit_code' = 1
            /\ UNCHANGED <<site, driver, quits, shown, clicks, page_num, all_data, last, output>>
            /\ UNCHANGED <<batchVars, envVars, netVars, normVars, funVars>>

\* TichaTextScraper.close on a scraper whose driver attribute is d: reading
\* an attribute that was never set raises AttributeError
TextClose(d) ==
    [raised |-> d = "unset",
     driver |-> IF d = "open" THEN "none" ELSE d,
     quit |-> d = "open"]

\* the "Content statistics" read three columns of texts_df: KeyError when
\* no record has one of them
StatsRaise(records) ==
    \E col \in {"transcription", "interlinear", "modern_spanish"} :
        \A k \in 1..Len(records) : col \notin DOMAIN records[k]

\* cli.scrape_texts after scrape_documents_from_dataframe has returned: the
\* test of texts_df.empty, to_csv, the statistics, and the finally clause
\* calling text_scraper.close(); an exception of any of them reaches the
\* handler that exits with status 1
TextsFinish(csv) ==
    /\ command = "texts"
    /\ pc = "idle"
    /\ bpc = "done"
    /\ pc' = "exited"
    /\ LET written == scraped_data # <<>> /\ csv = "ok"
           closed == TextClose(text_driver)
       IN  /\ output' = IF written THEN Some(scraped_data) ELSE output
           /\ text_driver' = closed.driver
           /\ last' = Obs("close", NoButton, FALSE, ~closed.raised)
           /\ exit_code' = IF written /\ ~StatsRaise(scraped_data) /\ ~closed.raised THEN 0 ELSE 1
    /\ UNCHANGED <<site, driver, quits, shown, clicks, page_num, all_data>>
    /\ UNCHANGED <<command, pending>>
    /\ UNCHANGED <<batchVars, netVars, normVars, funVars>>

\* KeyboardInterrupt during the loop over the rows
InterruptTexts ==
    /\ command = "texts"
    /\ pc = "idle"
    /\ bpc = "loop"
    /\ last' = Obs("interrupt", NoButton, FALSE, FALSE)
    /\ pc' = "exited"
    /\ exit_code' = 1
    /\ UNCHANGED <<site, driver, quits, shown, clicks, page_num, all_data, output>>
    /\ UNCHANGED <<batchVars, envVars, netVars, normVars, funVars>>

NextCli ==
    \/ Next
    \/ Interrupt
    \/ \E input \in InputOutcomes : TextsStart(input)
    \/ \E r \in FetchResults : pc = "idle" /\ ScrapeOne(r[1], r[2])
    \/ pc = "idle" /\ BatchReturn
    \/ \E csv \in CsvOutcomes : TextsFinish(csv)
    \/ InterruptTexts

SpecCli == InitCli /\ [][NextCli]_vars

----------------------------------------------------------------------------
(* The listing on a page that refreshes its table asynchronously *)

InitLive == Init /\ Len(site) <= CliLayout

\* the listing offers a page after those shown or asked for
Offered == shown + pending < LivePages

ReadOutcomes == {"ok", "error"}

\* variant: a page that cannot be read ends the traversal with the error
ExtractLiveAborts(read) ==
    /\ pc = "extract"
    /\ LET trs == PageTrs(site, shown)
           failed == read = "error" \/ Len(trs) = 0
       IN  /\ all_data' = IF failed THEN all_data ELSE all_data \o _extract_table_data(trs)
           /\ last' = Obs("extract", NoButton, FALSE, ~failed)
           /\ IF failed
              THEN pc' = "raised" /\ Close
              ELSE pc' = "has_next" /\ UNCHANGED <<driver, quits>>
    /\ UNCHANGED <<site, shown, clicks, page_num, output, exit_code>>
    /\ UNCHANGED <<batchVars, envVars, netVars, normVars, funVars>>

\* page_data = self._extract_table_data(); all_data.extend(page_data): the
\* wait for a row times out on a table without rows, and reading the rows
\* may raise; both handlers return []
ExtractLive(read) ==
    /\ pc = "extract"
    /\ LET trs == PageTrs(site, shown)
           failed == read = "error" \/ Len(trs) = 0
       IN  /\ all_data' = all_data \o (IF failed THEN <<>> ELSE _extract_table_data(trs))
           /\ last' = Obs("extract", NoButton, FALSE, ~failed)
    /\ pc' = "has_next"
    /\ UNCHANGED <<site, driver, quits, shown, clicks, page_num, output, exit_code>>
    /\ UNCHANGED <<batchVars, envVars, netVars, normVars, funVars>>

\* _go_to_next_page: the click asks the page for its next rows, which
\* arrive later (Refresh); the wait is for the presence of a row, which the
\* rows still shown satisfy
GoNextLive(b, click, wait) ==
    /\ pc = "go_next"
    /\ Offered \/ ~Clicks(b)
    /\ last' = Obs("go_next", b, Clicks(b), _go_to_next_page(b, click, wait))
    /\ clicks' = IF Clicks(b) THEN clicks + 1 ELSE clicks
    /\ pending' = IF Clicks(b) /\ click = "ok" THEN pending + 1 ELSE pending
    /\ IF _go_to_next_page(b, click, wait)
       THEN /\ page_num' = page_num + 1
            /\ IF page_num + 1 > MaxPageLimit
               THEN pc' = "returned" /\ Close
               ELSE pc' = "extract" /\ UNCHANGED <<driver, quits>>
       ELSE /\ page_num' = page_num
            /\ pc' = "returned"
            /\ Close
    /\ requests' = IF Clicks(b) THEN requests + 1 ELSE requests
    /\ delays' = IF Clicks(b) /\ click = "ok" THEN delays + 1 ELSE delays
    /\ undelayed' = IF Clicks(b) THEN click # "ok" ELSE undelayed
    /\ UNCHANGED <<site, shown, all_data, output, exit_code>>
    /\ UNCHANGED <<command, text_driver>>
    /\ UNCHANGED <<batchVars, normVars, funVars>>

\* if not self._has_next_page(): break, on a listing that shows its control
\* enabled only while a further page is on offer
HasNextLive(b) ==
    /\ Offered \/ ~_has_next_page(b)
    /\ HasNext(b)

\* the page redraws its table with the rows a click asked for
Refresh ==
    /\ pending > 0
    /\ driver = "open"
    /\ shown' = shown + 1
    /\ pending' = pending - 1
    /\ UNCHANGED <<site, pc, driver, quits, clicks, page_num, all_data, last, output, exit_code>>
    /\ UNCHANGED <<command, text_driver>>
    /\ UNCHANGED <<batchVars, netVars, normVars, funVars>>

NextLive ==
    \/ Start
    \/ \E outcome \in LoadOutcomes : Load(outcome)
    \/ \E read \in ReadOutcomes : ExtractLive(read)
    \/ \E b \in Buttons : HasNextLive(b)
    \/ \E b \in Buttons, click \in ClickOutcomes, wait \in WaitOutcomes : GoNextLive(b, click, wait)
    \/ Refresh
    \/ \E csv \in CsvOutcomes : Finish(csv)

SpecLive == InitLive /\ [][NextLive]_vars

----------------------------------------------------------------------------
(* The key normalization on its own *)

\* ' ', '-', '.', '(', ')', '_', 'A', 'a', '1', 'n with tilde'
KeyChars == {32, 45, 46, 40, 41, 95, 65, 97, 49, 241}

InitNorm ==
    /\ site = <<>>
    /\ pc = "idle"
    /\ driver = "none"
    /\ quits = 0
    /\ shown = 0
    /\ clicks = 0
    /\ page_num = 0
    /\ all_data = <<>>
    /\ last = Obs("none", NoButton, FALSE, FALSE)
    /\ output = None
    /\ exit_code = -1
    /\ command = "none"
    /\ BatchIdle
    /\ NetIdle
    /\ FunIdle
    /\ EnvIdle
    /\ raw \in SeqsUpTo(KeyChars, MaxKeyLen)
    /\ key = <<>>
    /\ key2 = <<>>
    /\ npc = "idle"

\* key = self._normalize_metadata_key(raw)
Normalize ==
    /\ npc = "idle"
    /\ key' = _normalize_metadata_key(raw)
    /\ npc' = "once"
    /\ UNCHANGED <<raw, key2>>
    /\ UNCHANGED <<listVars, batchVars, envVars, netVars, funVars>>

\* key2 = self._normalize_metadata_key(key)
Renormalize ==
    /\ npc = "once"
    /\ key2' = _normalize_metadata_key(key)
    /\ npc' = "twice"
    /\ UNCHANGED <<raw, key>>
    /\ UNCHANGED <<listVars, batchVars, envVars, netVars, funVars>>

NextNorm ==
    \/ Normalize
    \/ Renormalize

SpecNorm == InitNorm /\ [][NextNorm]_vars

----------------------------------------------------------------------------
(* The extraction functions on their own *)

\* number of <p> elements of a div
MaxParas == 3

\* no command runs
Quiet ==
    /\ site = <<>>
    /\ pc = "idle"
    /\ driver = "none"
    /\ quits = 0
    /\ shown = 0
    /\ clicks = 0
    /\ page_num = 0
    /\ all_data = <<>>
    /\ last = Obs("none", NoButton, FALSE, FALSE)
    /\ output = None
    /\ exit_code = -1
    /\ command = "none"
    /\ BatchIdle
    /\ NetIdle
    /\ EnvIdle
    /\ NormIdle

\* texts of <p> elements: "", " ", " A.", "B. ", "C\nD", "\te f\n"
Paragraphs == {<<>>, <<32>>, <<32, 65, 46>>, <<66, 46, 32>>, <<67, 10, 68>>, <<9, 101, 32, 102, 10>>}

Divs == {None} \cup {Some(ps) : ps \in SeqsUpTo(Paragraphs, MaxParas)}

InitText ==
    /\ Quiet
    /\ div_element \in Divs
    /\ region_content = None
    /\ metadata_div = None
    /\ metadata_map = EmptyDict
    /\ td = Cell(<<>>)
    /\ cell_text = <<>>
    /\ cell_link = None

\* content = self._extract_text_content(soup, div_id)
ExtractText ==
    /\ npc = "idle"
    /\ region_content' = _extract_text_content(div_element)
    /\ npc' = "done"
    /\ UNCHANGED <<div_element, metadata_div, metadata_map, td, cell_text, cell_link>>
    /\ UNCHANGED <<raw, key, key2>>
    /\ UNCHANGED <<listVars, batchVars, envVars, netVars>>

NextText == ExtractText

SpecText == InitText /\ [][NextText]_vars

\* texts of the <p> elements of div#metadata: "Title: T1", "Title:T2",
\* " title : a:b ", "no colon", " ", "Call Number: 1", ":v", "T-i.t (l) e:"
Blocks == {<<84, 105, 116, 108, 101, 58, 32, 84, 49>>, <<84, 105, 116, 108, 101, 58, 84, 50>>, <<32, 116, 105, 116, 108, 101, 32, 58, 32, 97, 58, 98, 32>>, <<110, 111, 32, 99, 111, 108, 111, 110>>, <<32>>, <<67, 97, 108, 108, 32, 78, 117, 109, 98, 101, 114, 58, 32, 49>>, <<58, 118>>, <<84, 45, 105, 46, 116, 32, 40, 108, 41, 32, 101, 58>>}

InitMeta ==
    /\ Quiet
    /\ metadata_div \in {None} \cup {Some(ps) : ps \in SeqsUpTo(Blocks, MaxParas)}
    /\ metadata_map = EmptyDict
    /\ div_element = None
    /\ region_content = None
    /\ td = Cell(<<>>)
    /\ cell_text = <<>>
    /\ cell_link = None

\* metadata = self._extract_metadata(soup)
ExtractMetadata ==
    /\ npc = "idle"
    /\ metadata_map' = _extract_metadata([metadata |-> metadata_div])
    /\ npc' = "done"
    /\ UNCHANGED <<div_element, region_content, metadata_div, td, cell_text, cell_link>>
    /\ UNCHANGED <<raw, key, key2>>
    /\ UNCHANGED <<listVars, batchVars, envVars, netVars>>

NextMeta == ExtractMetadata

SpecMeta == InitMeta /\ [][NextMeta]_vars

\* texts of cells without a link: "", " x ", "y\n", " p q", "\t", "z"
CellTexts == {<<>>, <<32, 120, 32>>, <<121, 10>>, <<32, 112, 32, 113>>, <<9>>, <<122>>}

\* labels of links: "", " L ", "m", "n o ", "\nk"
LinkLabels == {<<>>, <<32, 76, 32>>, <<109>>, <<110, 32, 111, 32>>, <<10, 107>>}

\* href attributes: none, "", "/u", "https:1"
Hrefs == {None, Some(<<>>), Some(<<47, 117>>), Some(<<104, 116, 116, 112, 115, 58, 49>>)}

\* text of the cell in front of its link: "", "see "
Leads == {<<>>, <<115, 101, 101, 32>>}

\* the cells read: without a link, with a link, and one that went stale
TableCells ==
    {Cell(t) : t \in CellTexts}
        \cup {[text |-> pre \o l, a |-> <<[text |-> l, href |-> h]>>, stale |-> FALSE] :
                 pre \in Leads, l \in LinkLabels, h \in Hrefs}
        \cup {StaleCell}

InitCell ==
    /\ Quiet
    /\ td \in TableCells
    /\ cell_text = <<>>
    /\ cell_link = None
    /\ div_element = None
    /\ region_content = None
    /\ metadata_div = None
    /\ metadata_map = EmptyDict

\* self._extract_text_from_cell(cells[k]): a stale cell raises an exception
\* the function does not catch
ReadText ==
    /\ npc = "idle"
    /\ IF td.stale
       THEN npc' = "raised" /\ cell_text' = cell_text
       ELSE npc' = "once" /\ cell_text' = _extract_text_from_cell(td)
    /\ UNCHANGED <<div_element, region_content, metadata_div, metadata_map, td, cell_link>>
    /\ UNCHANGED <<raw, key, key2>>
    /\ UNCHANGED <<listVars, batchVars, envVars, netVars>>

\* self._extract_link_from_cell(cells[k])
ReadLink ==
    /\ npc = "once"
    /\ cell_link' = _extract_link_from_cell(td)
    /\ npc' = "twice"
    /\ UNCHANGED <<div_element, region_content, metadata_div, metadata_map, td, cell_text>>
    /\ UNCHANGED <<raw, key, key2>>
    /\ UNCHANGED <<listVars, batchVars, envVars, netVars>>

NextCell ==
    \/ ReadText
    \/ ReadLink

SpecCell == InitCell /\ [][NextCell]_vars

----------------------------------------------------------------------------
(* What the listing holds, stated without the extraction loop *)

NonBlank(s) == \E i \in 1..Len(s) : ~IsSpace(s[i])

\* the visible label of a cell: that of its link when it has one
Label(cell) == IF cell.a # <<>> THEN cell.a[1].text ELSE cell.text

\* a row element that can be read, has the ten columns and both identity texts
WellFormed(tr) ==
    /\ tr.role
    /\ ~tr.stale
    /\ Len(tr.cells) >= 10
    /\ \A k \in 1..10 : ~tr.cells[k].stale
    /\ NonBlank(Label(tr.cells[1]))
    /\ NonBlank(tr.cells[3].text)

\* the rows page p of site s contributes
Accepted(s, p) ==
    LET good == SelectSeq(PageTrs(s, p), WellFormed)
    IN  [i \in 1..Len(good) |-> RowData(good[i].cells)]

\* the rows of pages 1..k of site s in order, for each k in 1..n; acc holds
\* those for k <= Len(acc)
RECURSIVE Prefixes(_, _, _)
Prefixes(s, n, acc) ==
    IF Len(acc) >= n THEN acc
    ELSE Prefixes(s, n, Append(acc, (IF Len(acc) = 0 THEN <<>> ELSE acc[Len(acc)])
                                        \o Accepted(s, Len(acc) + 1)))

\* Prefixes for every site, up to the page after the page limit
ExpectedTable == [s \in Sites |-> Prefixes(s, MaxPageLimit + 1, <<>>)]

\* the rows of pages 1..n of site s, in order
Expected(s, n) == IF n = 0 THEN <<>> ELSE ExpectedTable[s][n]

\* page and position of the row element an output row was read from
Origin(row_data) == <<row_data.ticha_id[1] - 256, row_data.ticha_id[2] - 512>>

\* the row element at position o[2] of page o[1] of site s
SourceTr(s, o) == Tr(KindRows(KindOf(s, o[1]))[o[2]], o[1], o[2])

Before(o1, o2) == o1[1] < o2[1] \/ (o1[1] = o2[1] /\ o1[2] < o2[2])

HasClass(b) == b.found = "yes" /\ b.class # None

Ended == pc \in {"returned", "exited"}

----------------------------------------------------------------------------
(* Claims about the listing traversal *)

\* C1: when the control never reports disabled and every navigation succeeds,
\* the traversal ends at the page cap having requested exactly MaxPageLimit
\* pages (no further page is requested) and returns the rows of those pages.
C1_StopsAtCapWithoutExtraPage ==
    (pc = "returned" /\ last.op = "go_next" /\ last.ok)
        => /\ shown = MaxPageLimit
           /\ clicks = MaxPageLimit - 1
           /\ all_data = Expected(site, MaxPageLimit)

C3_AllVisitedPagesInOutput ==
    pc = "returned" => all_data = Expected(site, page_num)

C5_OnlyAcceptedRows ==
    \A k \in 1..Len(all_data) :
        /\ Truthy(all_data[k].document_name)
        /\ Truthy(all_data[k].ticha_id)
        /\ LET o == Origin(all_data[k])
           IN  /\ o[1] \in 1..shown
               /\ o[2] \in 1..Len(KindRows(KindOf(site, o[1])))
               /\ Len(SourceTr(site, o).cells) >= 10
               /\ all_data[k].ticha_id = Strip(SourceTr(site, o).cells[3].text)

\* a page with a short row, a row without id and a row without name was read
C5_Witness ==
    /\ pc = "has_next"
    /\ page_num = 2
    /\ KindOf(site, 1) = "mixed"
    /\ KindOf(site, 2) = "bad"
    /\ Len(all_data) = 2

\* C6: when no row of the table of the first page becomes present, the run
\* is aborted: the pagination control is never inspected, nothing is
\* returned and no output is written.
C6_NoRowsAborts ==
    (page_num >= 1 /\ Len(PageTrs(site, 1)) = 0)
        => /\ pc \notin {"has_next", "go_next", "returned"}
           /\ last.op \notin {"has_next", "go_next"}
           /\ output = None
           /\ exit_code # 0

\* C7: when _go_to_next_page fails (the control is gone, the click raises or
\* the wait for the table times out) scrape_manuscripts returns normally
\* with the rows of the pages extracted so far.
C7_FailedNavigationKeepsRows ==
    (last.op = "go_next" /\ ~last.ok)
        => /\ Ended
           /\ all_data = Expected(site, page_num)
           /\ (pc = "exited" /\ exit_code = 0 => output = Some(all_data))

C7_Witness ==
    /\ pc = "returned"
    /\ last.op = "go_next"
    /\ last.clicked
    /\ ~last.ok
    /\ shown = page_num + 1
    /\ page_num = 2
    /\ Len(all_data) >= 2

\* C8: when the control cannot be located, or inspecting it fails,
\* _has_next_page is False: nothing is clicked, no further page is loaded
\* and the rows accumulated so far are returned.
C8_MissingControlStops ==
    (last.op = "has_next" /\ ~HasClass(last.button))
        => /\ ~last.ok
           /\ Ended
           /\ clicks = page_num - 1
           /\ shown = page_num
           /\ all_data = Expected(site, page_num)

C8_Witness ==
    /\ pc = "returned"
    /\ last.op = "has_next"
    /\ last.button.found = "no"
    /\ page_num = 2
    /\ Len(all_data) >= 2

\* C9: extracting a page adds exactly its well-formed rows, in order, to the
\* rows accumulated before, whatever malformed rows (short, without name or
\* id, raising when read) the page holds, and the traversal goes on.
C9_MalformedRowsSkipped ==
    [][pc = "extract" => /\ pc' = "has_next"
                         /\ all_data' = all_data \o Accepted(site, shown)]_vars

\* a page whose malformed rows are followed by well-formed ones, and a later page
C9_Witness ==
    /\ pc = "has_next"
    /\ page_num = 2
    /\ KindOf(site, 1) = "mixed"
    /\ KindOf(site, 2) = "good"
    /\ Len(all_data) = 4

----------------------------------------------------------------------------
(* Claims about the batch run *)

\* C10: the batch run processes the rows with a present, non-empty link in
\* their original order: all of them when max_documents is not set, and
\* exactly the first min(max_documents, number of such rows) of them
\* whenever max_documents is set to an integer (0 included).
C10_ProcessesPrefixOfValidRows ==
    bpc = "done"
        => LET valid == SelectSeq(df, HasLink)
               n == IF max_documents = None THEN Len(valid)
                    ELSE Min(max_documents[1], Len(valid))
           IN  /\ Len(scraped_data) = Max(n, 0)
               /\ \A k \in 1..Len(scraped_data) :
                      scraped_data[k].ticha_id = valid[k].ticha_id

\* the fixed field names of a document record
FixedFields == {"url", "transcription", "interlinear", "modern_spanish"}

\* the k-th call of scrape_document succeeded / failed
Succeeded(k) == fetches[k].fetch = "ok"

\* C11: each combined record is the union of its listing row and its
\* document record: every key of the document record has the document's
\* value, every key of the row alone has the row's value.
C11_CombinedIsUnionDocumentWins ==
    \A k \in 1..Len(scraped_data) :
        LET row == valid_df[k]
            doc == fetches[k].doc
            combined == scraped_data[k]
        IN  /\ DOMAIN combined = DOMAIN row \cup DOMAIN doc
            /\ \A f \in DOMAIN doc : combined[f] = doc[f]
            /\ \A f \in DOMAIN row \ DOMAIN doc : combined[f] = row[f]

\* a record whose document defines archive and transcription as the row does
\* with other values, after one whose document defines neither
C11_Witness ==
    /\ Len(scraped_data) >= 2
    /\ "archive" \notin DOMAIN fetches[1].doc
    /\ "transcription" \notin DOMAIN fetches[1].doc
    /\ scraped_data[1].archive = valid_df[1].archive
    /\ "archive" \in DOMAIN fetches[2].doc
    /\ fetches[2].doc.archive # valid_df[2].archive
    /\ fetches[2].doc.transcription # valid_df[2].transcription
    /\ scraped_data[2].transcription = fetches[2].doc.transcription

\* C12: in the record scrape_document returns for a page, the four fixed
\* fields hold the resolved URL and the content of the three regions,
\* whatever keys the metadata of the page defines.
C12_FixedFieldsTakePrecedence ==
    \A k \in 1..Len(fetches) :
        Succeeded(k)
            => LET doc == fetches[k].doc
                   page == fetches[k].page
               IN  /\ doc.url = Resolve(fetches[k].ref)
                   /\ doc.transcription = _extract_text_content(page.transcription)
                   /\ doc.interlinear = _extract_text_content(page.interLinear)
                   /\ doc.modern_spanish = _extract_text_content(page.modern_spanish)

\* C13: when the response is not a success or an exception occurs,
\* scrape_document returns the record of exactly url and error, url being
\* the resolved reference.
C13_FailureGivesErrorRecord ==
    \A k \in 1..Len(fetches) :
        ~Succeeded(k)
            => /\ DOMAIN fetches[k].doc = {"url", "error"}
               /\ fetches[k].doc.url = Resolve(fetches[k].ref)

\* a relative reference answered with a status other than 200, and a
\* reference whose request raised
C13_Witness ==
    \E j, k \in 1..Len(fetches) :
        /\ fetches[j].fetch = "status"
        /\ ~StartsWith(fetches[j].ref, Http)
        /\ fetches[k].fetch = "exception"

\* C14: the run emits exactly one combined record per selected row, the
\* k-th for the k-th row; a failed document gives a row with error and the
\* fields of the original row, and the later rows are still processed.
C14_OneRecordPerSelectedRow ==
    /\ Len(scraped_data) = idx
    /\ Len(fetches) = idx
    /\ bpc = "done" => idx = Len(valid_df)
    /\ \A k \in 1..Len(scraped_data) :
           /\ scraped_data[k].ticha_id = valid_df[k].ticha_id
           /\ scraped_data[k].document_link = valid_df[k].document_link
           /\ ~Succeeded(k)
                  => /\ "error" \in DOMAIN scraped_data[k]
                     /\ \A f \in DOMAIN valid_df[k] : scraped_data[k][f] = valid_df[k][f]

\* a finished run of three rows whose first two documents failed
C14_Witness ==
    /\ bpc = "done"
    /\ Len(scraped_data) = 3
    /\ ~Succeeded(1)
    /\ ~Succeeded(2)
    /\ Succeeded(3)
    /\ "error" \notin DOMAIN scraped_data[3]

----------------------------------------------------------------------------
(* Claims about rate limiting, sequencing and the end of a command *)

\* C15: between every two consecutive outbound requests (the initial
\* navigation, each click of the pagination control, each document fetch) a
\* rate-limit delay is performed: no request is made while the request
\* before it has not been followed by a delay.
C15_DelayBetweenRequests == [][requests' > requests => ~undelayed]_vars

\* C16: every call of scrape_document performs the rate-limit delay exactly
\* once, whether it returns the document or the error record.
C16_OneDelayPerCall == delays = Len(fetches)

\* C17: at most one attempt per item, in order: the listing is loaded at
\* most once, every click but a last failed one moved the table on by one
\* page, and the k-th document fetched is that of the k-th selected row,
\* each row being fetched once whatever the outcome.
C17_SequentialOneAttempt ==
    /\ command = "manuscripts"
           => /\ requests - clicks \in {0, 1}
              /\ clicks <= shown
              /\ pc \in {"extract", "has_next", "go_next"}
                     => clicks = shown - 1 /\ shown = page_num
    /\ command = "texts"
           => /\ requests = Len(fetches)
              /\ Len(fetches) = idx
              /\ \A k \in 1..Len(fetches) : fetches[k].ref = valid_df[k].document_link[1]

\* a listing run ended by a timeout after the second click
C17_Witness ==
    /\ pc = "returned"
    /\ last.op = "go_next"
    /\ last.clicked
    /\ ~last.ok
    /\ clicks = 2
    /\ shown = 3
    /\ page_num = 2

\* C18: once scrape_manuscripts has finished, on whatever path, quit was
\* called exactly once and the driver is None; after an interrupt the
\* command has exited with a status other than 0 and written no file.
C18_DriverReleasedOnEveryExit ==
    command = "manuscripts"
        => /\ quits <= 1
           /\ pc \in {"returned", "raised", "exited"} => driver = "none" /\ quits = 1
           /\ last.op = "interrupt" => pc = "exited" /\ exit_code > 0 /\ output = None

\* an interrupt on the second page, rows already collected
C18_Witness ==
    /\ command = "manuscripts"
    /\ last.op = "interrupt"
    /\ page_num = 2
    /\ all_data # <<>>
    /\ quits = 1

\* the records the command has produced
Produced == IF command = "texts" THEN scraped_data ELSE all_data

\* C19: a command that produced no record exits with a status other than 0
\* and writes no file, as does one ended by a fatal error; a file is written
\* only when the phase is over, and then holds all its records.
C19_NoRecordsNoOutput ==
    /\ pc = "exited" /\ Produced = <<>> => exit_code > 0 /\ output = None
    /\ pc = "exited" /\ last.op = "load" => exit_code > 0 /\ output = None
    /\ pc # "exited" => output = None
    /\ output # None
           => /\ output = Some(Produced)
              /\ command = "texts" => bpc = "done"
              /\ command = "manuscripts" => last.op \in {"has_next", "go_next"}

\* the listing was traversed to its end and gave no row
C19_Witness ==
    /\ command = "manuscripts"
    /\ pc = "exited"
    /\ last.op = "has_next"
    /\ all_data = <<>>
    /\ exit_code = 1
    /\ output = None

----------------------------------------------------------------------------
(* Claims about the key normalization *)

\* a character of [a-z0-9_]
IsKeyChar(c) == c \in 97..122 \/ c \in 48..57 \/ c = 95

\* C20: for every label the normalized key holds only characters of
\* [a-z0-9_], has no leading, trailing or doubled underscore, and is a fixed
\* point of the normalization.
C20_NormalizeIdempotentKeyChars ==
    npc = "twice"
        => /\ \A i \in 1..Len(key) : IsKeyChar(key[i])
           /\ key # <<>> => key[1] # 95 /\ key[Len(key)] # 95
           /\ \A i \in 1..(Len(key) - 1) : ~(key[i] = 95 /\ key[i + 1] = 95)
           /\ key2 = key

\* positions i < j of s hold '(' and ')' with no parenthesis between them
Parenthesized(s, i, j) ==
    /\ i < j
    /\ s[i] = 40
    /\ s[j] = 41
    /\ \A k \in (i + 1)..(j - 1) : s[k] \notin {40, 41}

\* a letter or a digit
IsAlnum(c) == IsWord(c) /\ c # 95

InKey(c) == \E i \in 1..Len(key) : key[i] = c

\* C21: the characters a label holds between parentheses do not appear in
\* the normalized key (a letter or digit that the label holds only between
\* parentheses is not in the key).
C21_WrappedContentRemoved ==
    npc # "idle"
        => \A i, j \in 1..Len(raw) :
               Parenthesized(raw, i, j)
                   => \A k \in (i + 1)..(j - 1) :
                          /\ IsAlnum(raw[k])
                          /\ \A m \in 1..Len(raw) : m \notin i..j => Lower(raw[m]) # Lower(raw[k])
                          => ~InKey(Lower(raw[k]))

\* C21 as amended: only the parentheses themselves are removed, what they
\* wrap is kept: every letter or digit that the trimmed, lower-cased label
\* holds between parentheses appears in the normalized key.
C21_OnlyDelimitersRemoved ==
    npc # "idle"
        => LET label == LowerStr(Strip(raw))
           IN  \A i, j \in 1..Len(label) :
                   Parenthesized(label, i, j)
                       => \A k \in (i + 1)..(j - 1) : IsAlnum(label[k]) => InKey(label[k])

\* "A(1)" has given "a1"
C21_Witness ==
    /\ npc = "once"
    /\ raw = <<65, 40, 49, 41>>
    /\ key = <<97, 49>>

----------------------------------------------------------------------------
(* Claims about the extraction functions *)

\* s without its leading and trailing whitespace
Trimmed(s) ==
    LET at == {i \in 1..Len(s) : ~IsSpace(s[i])}
    IN  IF at = {} THEN <<>>
        ELSE SubSeq(s, CHOOSE i \in at : \A j \in at : i <= j,
                       CHOOSE i \in at : \A j \in at : i >= j)

\* the texts ps[1..n] that are not blank, trimmed and with a blank line
\* after each
RECURSIVE Glued(_, _)
Glued(ps, n) ==
    IF n = 0 THEN <<>>
    ELSE IF NonBlank(ps[n]) THEN Glued(ps, n - 1) \o Trimmed(ps[n]) \o <<10, 10>>
    ELSE Glued(ps, n - 1)

\* C22: _extract_text_content returns the paragraphs of the region, each
\* trimmed, the empty ones dropped, in document order and joined by a blank
\* line; a region that is absent or has no non-empty paragraph gives None,
\* never the empty string.
C22_RegionParagraphsJoined ==
    npc = "done"
        => LET ps == IF div_element = None THEN <<>> ELSE div_element[1]
           IN  /\ region_content # Some(<<>>)
               /\ (\A i \in 1..Len(ps) : ~NonBlank(ps[i])) => region_content = None
               /\ (\E i \in 1..Len(ps) : NonBlank(ps[i]))
                      => /\ region_content # None
                         /\ region_content[1] \o <<10, 10>> = Glued(ps, Len(ps))

\* " A.", " ", "C\nD" have given "A.\n\nC\nD"
C22_Witness ==
    /\ npc = "done"
    /\ div_element = Some(<<<<32, 65, 46>>, <<32>>, <<67, 10, 68>>>>)
    /\ region_content = Some(<<65, 46, 10, 10, 67, 10, 68>>)

\* what each text of Blocks is to contribute: nothing, or a key and a value
BlockEntry(b) ==
    CASE b = <<84, 105, 116, 108, 101, 58, 32, 84, 49>> -> Some([key |-> <<116, 105, 116, 108, 101>>, value |-> <<84, 49>>])
      [] b = <<84, 105, 116, 108, 101, 58, 84, 50>> -> Some([key |-> <<116, 105, 116, 108, 101>>, value |-> <<84, 50>>])
      [] b = <<32, 116, 105, 116, 108, 101, 32, 58, 32, 97, 58, 98, 32>> -> Some([key |-> <<116, 105, 116, 108, 101>>, value |-> <<97, 58, 98>>])
      [] b = <<67, 97, 108, 108, 32, 78, 117, 109, 98, 101, 114, 58, 32, 49>> -> Some([key |-> <<99, 97, 108, 108, 95, 110, 117, 109, 98, 101, 114>>, value |-> <<49>>])
      [] b = <<58, 118>> -> Some([key |-> <<>>, value |-> <<118>>])
      [] b = <<84, 45, 105, 46, 116, 32, 40, 108, 41, 32, 101, 58>> -> Some([key |-> <<116, 95, 105, 95, 116, 95, 108, 95, 101>>, value |-> <<>>])
      [] OTHER -> None

\* the <p> texts of div#metadata, none when there is no such div
MetaBlocks == IF metadata_div = None THEN <<>> ELSE metadata_div[1]

\* block i contributes an entry of key k
EntryOf(i, k) == BlockEntry(MetaBlocks[i]) # None /\ BlockEntry(MetaBlocks[i])[1].key = k

\* C23: each metadata block is split on its first colon only: the part
\* before it, normalized, is the key and the trimmed remainder, colons
\* included, the value; a block without a colon contributes nothing, and a
\* page without the metadata container gives the empty map.
C23_SplitOnFirstColon ==
    npc = "done"
        => /\ \A k \in DOMAIN metadata_map :
                  \E i \in 1..Len(MetaBlocks) :
                      EntryOf(i, k) /\ BlockEntry(MetaBlocks[i])[1].value = metadata_map[k]
           /\ \A i \in 1..Len(MetaBlocks) :
                  BlockEntry(MetaBlocks[i]) # None
                      => BlockEntry(MetaBlocks[i])[1].key \in DOMAIN metadata_map
           /\ metadata_div = None => metadata_map = EmptyDict

\* " title : a:b " and "no colon" have given {title: "a:b"}
C23_Witness ==
    /\ npc = "done"
    /\ metadata_div = Some(<<<<32, 116, 105, 116, 108, 101, 32, 58, 32, 97, 58, 98, 32>>, <<110, 111, 32, 99, 111, 108, 111, 110>>>>)
    /\ metadata_map = [k \in {<<116, 105, 116, 108, 101>>} |-> <<97, 58, 98>>]

\* C30: the map has one entry per normalized key, holding the value of the
\* last block of that key, and as many entries as the blocks with a colon
\* have distinct normalized keys.
C30_LastBlockWins ==
    npc = "done"
        => /\ \A k \in DOMAIN metadata_map :
                  \E i \in 1..Len(MetaBlocks) :
                      /\ EntryOf(i, k)
                      /\ \A j \in (i + 1)..Len(MetaBlocks) : ~EntryOf(j, k)
                      /\ metadata_map[k] = BlockEntry(MetaBlocks[i])[1].value
           /\ Cardinality(DOMAIN metadata_map)
                  = Cardinality({BlockEntry(MetaBlocks[i])[1].key :
                                    i \in {j \in 1..Len(MetaBlocks) : BlockEntry(MetaBlocks[j]) # None}})

\* "Title: T1", "Call Number: 1", "Title:T2" have given title: "T2" and
\* call_number: "1"
C30_Witness ==
    /\ npc = "done"
    /\ metadata_div = Some(<<<<84, 105, 116, 108, 101, 58, 32, 84, 49>>, <<67, 97, 108, 108, 32, 78, 117, 109, 98, 101, 114, 58, 32, 49>>, <<84, 105, 116, 108, 101, 58, 84, 50>>>>)
    /\ DOMAIN metadata_map = {<<116, 105, 116, 108, 101>>, <<99, 97, 108, 108, 95, 110, 117, 109, 98, 101, 114>>}
    /\ metadata_map[<<116, 105, 116, 108, 101>>] = <<84, 50>>

\* C24: for a cell holding a link the text is the trimmed label of the
\* link and the link its target, absent when the target is empty or
\* missing; for a cell without a link the text is the trimmed text of the
\* cell and the link is absent; reading such a cell does not raise.
C24_CellTextAndLink ==
    /\ ~td.stale => npc # "raised"
    /\ npc = "twice"
           => IF td.a # <<>>
              THEN /\ cell_text = Trimmed(td.a[1].text)
                   /\ cell_link = IF td.a[1].href \in {None, Some(<<>>)} THEN None
                                  ELSE td.a[1].href
              ELSE /\ cell_text = Trimmed(td.text)
                   /\ cell_link = None

\* the cell "see  L " whose link " L " has an empty target
C24_Witness ==
    /\ npc = "twice"
    /\ td.text = <<115, 101, 101, 32>> \o <<32, 76, 32>>
    /\ td.a # <<>>
    /\ td.a[1].href = Some(<<>>)
    /\ cell_text = <<76>>
    /\ cell_link = None

----------------------------------------------------------------------------
(* Claims about the scraper objects and the texts command *)

\* C25: a newly constructed scraper of either class has its driver
\* attribute None; close() leaves the driver None, having quit a driver
\* that was held exactly once, and does not fail when none is held (the
\* texts command has constructed its scraper once the rows are iterated).
C25_NoDriverAndCloseSafe ==
    /\ command = "manuscripts" /\ pc = "idle" => driver = "none"
    /\ command = "manuscripts" /\ pc \in {"returned", "raised", "exited"}
           => driver = "none" /\ quits = 1
    /\ command = "texts" /\ bpc # "idle" => text_driver = "none"
    /\ last.op = "close" => last.ok

\* C27: the texts command exits with status 0 when at least one combined
\* record was produced and the output file was written, and with another
\* status only when no file was written.
C27_TextsExitStatus ==
    command = "texts" /\ pc = "exited" => (exit_code = 0 <=> output # None)

\* C28: when _go_to_next_page reads a class that contains "disabled", the
\* control is not clicked, no request and no delay is made, and the
\* traversal ends.
C28_DisabledNeverClicked ==
    [][(pc = "go_next" /\ last'.op = "go_next" /\ HasClass(last'.button)
            /\ Contains(last'.button.class[1], Disabled))
           => /\ ~last'.clicked
              /\ clicks' = clicks
              /\ requests' = requests
              /\ delays' = delays
              /\ shown' = shown
              /\ pc' = "returned"]_vars

\* on the second page the control, enabled for _has_next_page, was read as
\* disabled by _go_to_next_page
C28_Witness ==
    /\ pc = "returned"
    /\ last.op = "go_next"
    /\ HasClass(last.button)
    /\ Contains(last.button.class[1], Disabled)
    /\ page_num = 2
    /\ clicks = 1

----------------------------------------------------------------------------
(* Claims about the listing on a page that refreshes asynchronously *)

\* C26: whenever the refresh of the table happens, extraction after a click
\* reads the rows of the next page only: no row is read a second time, so
\* that no row appears twice in the rows collected.
C26_NoPageReadTwice ==
    \A i, j \in 1..Len(all_data) : i < j => all_data[i].ticha_id # all_data[j].ticha_id

\* C29: when the extraction of a page after the first fails as a whole (no
\* row appears in time, or reading the table raises), the rows collected
\* stay as they are and the traversal goes on to inspect the control.
C29_FailedPageKeepsRowsAndGoesOn ==
    [][(pc = "extract" /\ last'.op = "extract" /\ ~last'.ok /\ page_num > 1)
           => /\ all_data' = all_data
              /\ pc' = "has_next"
              /\ driver' = "open"]_vars

\* reading the second page raised although its table holds rows
C29_Witness ==
    /\ pc = "has_next"
    /\ last.op = "extract"
    /\ ~last.ok
    /\ page_num = 2
    /\ shown = 2
    /\ Len(PageTrs(site, shown)) > 0
    /\ all_data # <<>>

====
